---- MODULE Spec2Model ----
(***************************************************************************)
(* Global-styles hooks of the block editor                                 *)
(* (packages/block-editor/src/components/global-styles/hooks.js):          *)
(* useGlobalStylesReset, useGlobalSetting, useGlobalStyle and              *)
(* useSettingsForBlockElement.                                             *)
(*                                                                         *)
(* JavaScript objects live in a heap, so that identity, aliasing and       *)
(* in-place mutation are observable: a value is a tagged record, an object *)
(* value is a reference into `heap`, and heap[r] maps the object's own     *)
(* keys to values.  A lodash path string ('settings.blocks.B.color.text')  *)
(* is the sequence of its segments; segments hold no dot, so building the  *)
(* dotted string and lodash's split of it give back the same segments.     *)
(***************************************************************************)
EXTENDS Integers, Sequences, FiniteSets, TLC

VARIABLES
    heap,       \* reference -> object (own key -> value)
    base,       \* GlobalStylesContext.base
    user,       \* GlobalStylesContext.user, the state setUserConfig replaces
    merged,     \* GlobalStylesContext.merged
    snapshot,   \* the user configuration the last render's closures captured
    queue,      \* updaters handed to setUserConfig and not yet run
    applied,    \* the updaters run so far, oldest first
    prev,       \* the configuration handed to the last updater run
    gen,        \* allocation counter: references made by one call share it
    op,         \* the last hook call or updater run: name and arguments
    result,     \* what the last hook call returned
    thrown      \* what the last hook call or updater threw ("none" if nothing)

vars == <<heap, base, user, merged, snapshot, queue, applied, prev, gen, op,
          result, thrown>>

----------------------------------------------------------------------------
(* JavaScript values *)

Undef == [t |-> "undefined"]
Null == [t |-> "null"]
Bool(b) == [t |-> "boolean", v |-> b]
Num(n) == [t |-> "number", v |-> n]
Str(s) == [t |-> "string", v |-> s]
Arr(s) == [t |-> "array", v |-> s]
Fn(n) == [t |-> "function", v |-> n]
Ref(r) == [t |-> "object", r |-> r]

\* ToBoolean: what `!! v`, `! v` and `if ( v )` see.
Truthy(v) ==
    CASE v.t = "undefined" -> FALSE
      [] v.t = "null" -> FALSE
      [] v.t = "boolean" -> v.v
      [] v.t = "number" -> v.v # 0
      [] v.t = "string" -> v.v # ""
      [] OTHER -> TRUE

\* `a ?? b`
Nullish(v) == v.t \in {"undefined", "null"}
Coalesce(a, b) == IF Nullish(a) THEN b ELSE a

isObject(v) == v.t = "object"

EmptyObj == <<>>

\* obj with obj[key] = v
Put(obj, key, v) == (key :> v) @@ obj

Own(h, v, key) ==
    IF isObject(v) /\ key \in DOMAIN h[v.r] THEN h[v.r][key] ELSE Undef

----------------------------------------------------------------------------
(* lodash get / set, fast-deep-equal, JSON.parse( JSON.stringify( . ) ) *)

\* get( object, path ): undefined as soon as a segment is missing or the
\* value on the way is no object (the keys used here are no members of
\* String.prototype, Number.prototype or Array.prototype).
RECURSIVE get(_, _, _)
get(h, v, path) ==
    IF path = <<>> THEN v
    ELSE IF isObject(v) /\ Head(path) \in DOMAIN h[v.r]
         THEN get(h, h[v.r][Head(path)], Tail(path))
         ELSE Undef

assignValue(h, id, key, value) == [h EXCEPT ![id] = Put(@, key, value)]

\* baseSet: walks `rest` from object `id` (reached from the root by `done`),
\* assigning in place; a segment on the way that holds no object gets a
\* new empty object.
RECURSIVE baseSet(_, _, _, _, _, _)
baseSet(h, id, done, rest, value, g) ==
    LET key == Head(rest)
        objValue == IF key \in DOMAIN h[id] THEN h[id][key] ELSE Undef
        nid == <<g, done \o <<key>>>>
    IN  IF Len(rest) = 1 THEN assignValue(h, id, key, value)
        ELSE IF isObject(objValue)
             THEN baseSet(h, objValue.r, done \o <<key>>, Tail(rest), value, g)
             ELSE baseSet(assignValue(h, id, key, Ref(nid)) @@ (nid :> EmptyObj),
                          nid, done \o <<key>>, Tail(rest), value, g)

\* set( object, path, value ): the heap after the call (object itself is
\* returned by lodash; a non-object is left alone).
set(h, v, path, value, g) ==
    IF isObject(v) THEN baseSet(h, v.r, <<>>, path, value, g) ELSE h

\* The objects reachable from object `id`, each with the path that reaches it.
RECURSIVE ObjPaths(_, _, _)
ObjPaths(h, id, p) ==
    {<<p, id>>} \cup
    UNION { ObjPaths(h, h[id][k].r, p \o <<k>>) :
            k \in {kk \in DOMAIN h[id] : isObject(h[id][kk])} }

\* JSON.stringify leaves out the keys whose value is undefined or a function.
JSONKeeps(v) == v.t \notin {"undefined", "function"}

\* JSON.parse( JSON.stringify( v ) ) for an object v: a copy made of new
\* objects only, named <<g, path>>.
JSONCloneHeap(h, v, g) ==
    LET ps == ObjPaths(h, v.r, <<>>)
        src(p) == (CHOOSE e \in ps : e[1] = p)[2]
    IN  [n \in {<<g, e[1]>> : e \in ps} |->
            [k \in {kk \in DOMAIN h[src(n[2])] : JSONKeeps(h[src(n[2])][kk])} |->
                IF isObject(h[src(n[2])][k])
                THEN Ref(<<g, n[2] \o <<k>>>>)
                ELSE h[src(n[2])][k]]]

\* JSON.stringify( undefined ) is undefined and JSON.parse( undefined ) throws.
JSONThrows(v) == v.t \in {"undefined", "function"}

JSONCloneValue(v, g) == IF isObject(v) THEN Ref(<<g, <<>>>>) ELSE v

RECURSIVE fastDeepEqual(_, _, _)
fastDeepEqual(h, a, b) ==
    IF a = b THEN TRUE
    ELSE IF isObject(a) /\ isObject(b)
         THEN /\ DOMAIN h[a.r] = DOMAIN h[b.r]
              /\ \A k \in DOMAIN h[a.r] : fastDeepEqual(h, h[a.r][k], h[b.r][k])
         ELSE FALSE

----------------------------------------------------------------------------
(* hooks.js: constants *)

\* const EMPTY_CONFIG = { settings: {}, styles: {} }: one shared object.
EmptyTag == 0
EMPTY_CONFIG == Ref(<<EmptyTag, <<>>>>)
EmptyConfigHeap ==
    (<<EmptyTag, <<>>>> :>
        (("settings" :> Ref(<<EmptyTag, <<"settings">>>>)) @@
         ("styles" :> Ref(<<EmptyTag, <<"styles">>>>)))) @@
    (<<EmptyTag, <<"settings">>>> :> EmptyObj) @@
    (<<EmptyTag, <<"styles">>>> :> EmptyObj)

VALID_SETTINGS == <<
    <<"appearanceTools">>,
    <<"useRootPaddingAwareAlignments">>,
    <<"border", "color">>,
    <<"border", "radius">>,
    <<"border", "style">>,
    <<"border", "width">>,
    <<"shadow", "presets">>,
    <<"shadow", "defaultPresets">>,
    <<"color", "background">>,
    <<"color", "custom">>,
    <<"color", "customDuotone">>,
    <<"color", "customGradient">>,
    <<"color", "defaultDuotone">>,
    <<"color", "defaultGradients">>,
    <<"color", "defaultPalette">>,
    <<"color", "duotone">>,
    <<"color", "gradients">>,
    <<"color", "link">>,
    <<"color", "palette">>,
    <<"color", "text">>,
    <<"custom">>,
    <<"dimensions", "minHeight">>,
    <<"layout", "contentSize">>,
    <<"layout", "definitions">>,
    <<"layout", "wideSize">>,
    <<"position", "fixed">>,
    <<"position", "sticky">>,
    <<"spacing", "customSpacingSize">>,
    <<"spacing", "spacingSizes">>,
    <<"spacing", "spacingScale">>,
    <<"spacing", "blockGap">>,
    <<"spacing", "margin">>,
    <<"spacing", "padding">>,
    <<"spacing", "units">>,
    <<"typography", "fuild">>,
    <<"typography", "customFontSize">>,
    <<"typography", "dropCap">>,
    <<"typography", "fontFamilies">>,
    <<"typography", "fontSizes">>,
    <<"typography", "fontStyle">>,
    <<"typography", "fontWeight">>,
    <<"typography", "letterSpacing">>,
    <<"typography", "lineHeight">>,
    <<"typography", "textDecoration">>,
    <<"typography", "textTransform">>
>>

\* The context object minus setUserConfig ({ setUserConfig, ...configs }),
\* read at key `key`: its own keys are the three views; a plain object
\* also answers the names it inherits from Object.prototype.
ObjectPrototypeKeys == {"constructor", "toString"}
configsAt(b, u, m, key) ==
    CASE key = "base" -> b
      [] key = "user" -> u
      [] key = "merged" -> m
      [] key \in ObjectPrototypeKeys -> Fn(key)
      [] OTHER -> Undef

\* blockName: Undef when the argument is left out, else Str(name).
\* propertyPath / path: <<>> when left out (or ''), else its segments.
appendedBlockPath(blockName) ==
    IF Truthy(blockName) THEN <<"blocks", blockName.v>> ELSE <<>>

----------------------------------------------------------------------------
(* useGlobalStylesReset *)

canReset(h, config) == Truthy(config) /\ ~fastDeepEqual(h, config, EMPTY_CONFIG)

\* () => EMPTY_CONFIG
resetUpdater(currentConfig) == EMPTY_CONFIG

----------------------------------------------------------------------------
(* useGlobalSetting: the read *)

contextualPath(propertyPath, blockName) ==
    <<"settings">> \o appendedBlockPath(blockName) \o propertyPath
globalPath(propertyPath) == <<"settings">> \o propertyPath
sourceKeyOf(source) == IF source = "all" THEN "merged" ELSE source

\* get( configToUse, contextualPath ) ?? get( configToUse, globalPath )
settingAtOr(h, configToUse, propertyPath, blockName) ==
    IF Truthy(get(h, configToUse, contextualPath(propertyPath, blockName)))
    THEN get(h, configToUse, contextualPath(propertyPath, blockName))
    ELSE get(h, configToUse, globalPath(propertyPath))
settingAt(h, configToUse, propertyPath, blockName) ==
    Coalesce(get(h, configToUse, contextualPath(propertyPath, blockName)),
             get(h, configToUse, globalPath(propertyPath)))

\* if ( value ) { set( result, setting, value ); }
bulkKeepsDefined(value) == value # Undef
bulkKeeps(value) == Truthy(value)

\* VALID_SETTINGS.forEach( ... ) from index i on, over result object `res`.
RECURSIVE bulkFrom(_, _, _, _, _, _)
bulkFrom(h, res, configToUse, blockName, i, g) ==
    IF i > Len(VALID_SETTINGS) THEN h
    ELSE LET value == settingAt(h, configToUse, VALID_SETTINGS[i], blockName)
             h2 == IF bulkKeeps(value)
                   THEN set(h, res, VALID_SETTINGS[i], value, g)
                   ELSE h
         IN  IF res.r \in DOMAIN h2
             THEN bulkFrom(h2, res, configToUse, blockName, i + 1, g)
             ELSE h2

\* The useMemo callback: [heap, value, thrown].
settingValue(h, b, u, m, propertyPath, blockName, source, g) ==
    LET configToUse == configsAt(b, u, m, sourceKeyOf(source))
        res == Ref(<<g, <<>>>>)
    IN  IF ~Truthy(configToUse)
        THEN [heap |-> h, value |-> Undef, thrown |-> "Unsupported source"]
        ELSE IF propertyPath # <<>>
        THEN [heap |-> h,
              value |-> settingAt(h, configToUse, propertyPath, blockName),
              thrown |-> "none"]
        ELSE [heap |-> bulkFrom(h @@ (res.r :> EmptyObj), res, configToUse,
                                blockName, 1, g),
              value |-> res,
              thrown |-> "none"]

----------------------------------------------------------------------------
(* ./utils: preset variables.  A preset collection is the object at        *)
(* settings.color.palette, slug -> literal value; the reference to entry   *)
(* `red` is the string PresetToken.                                        *)

PresetToken == Str("var:preset|color|red")
PresetPath == <<"settings", "color", "palette", "red">>

\* A reference token becomes the literal of the matching preset entry;
\* anything else, and a token with no matching entry, passes through.
getValueFromVariable(h, features, blockName, variable) ==
    IF variable = PresetToken /\ ~Nullish(get(h, features, PresetPath))
    THEN get(h, features, PresetPath)
    ELSE variable

\* The reverse: a literal equal to a preset entry becomes its token.
getPresetVariableFromValue(h, settings, blockName, path, value) ==
    IF ~Nullish(value) /\ get(h, settings, Tail(PresetPath)) = value
    THEN PresetToken
    ELSE value

----------------------------------------------------------------------------
(* useGlobalStyle: the read *)

finalPath(path, blockName) ==
    IF ~Truthy(blockName) THEN <<"styles">> \o path
    ELSE <<"styles", "blocks", blockName.v>> \o path

\* case 'all': styles.css is read from the user view, the rest from merged.
rawAllMerged(h, u, m, path, blockName) == get(h, m, finalPath(path, blockName))
rawAll(h, u, m, path, blockName) ==
    IF finalPath(path, blockName) = <<"styles", "css">>
    THEN get(h, u, finalPath(path, blockName))
    ELSE get(h, m, finalPath(path, blockName))

\* The switch: [value, thrown].
styleResult(h, b, u, m, path, blockName, source, shouldDecodeEncode) ==
    LET decoded(features, raw) ==
            IF shouldDecodeEncode
            THEN getValueFromVariable(h, features, blockName, raw)
            ELSE raw
    IN  CASE source = "all" ->
                [value |-> decoded(m, rawAll(h, u, m, path, blockName)),
                 thrown |-> "none"]
          [] source = "user" ->
                [value |-> decoded(m, get(h, u, finalPath(path, blockName))),
                 thrown |-> "none"]
          [] source = "base" ->
                [value |-> decoded(b, get(h, b, finalPath(path, blockName))),
                 thrown |-> "none"]
          [] OTHER -> [value |-> Undef, thrown |-> "Unsupported source"]

----------------------------------------------------------------------------
(* setUserConfig updaters *)

\* An updater closure: what it does (kind), the lodash path and the value
\* it was called with, and what its hook call captured: the merged and user
\* views of that render, blockName, the style path, shouldDecodeEncode.
\* fromRead tells that newValue is the value the same hook call returned.
Updater(kind, path, value, encode, blockName, stylePath, m, snap, fromRead) ==
    [kind |-> kind, path |-> path, value |-> value, encode |-> encode,
     blockName |-> blockName, stylePath |-> stylePath, merged |-> m,
     snap |-> snap, fromRead |-> fromRead]

\* ( currentConfig ) => ...: the configuration the updater works on is the
\* one setUserConfig hands it.
staleConfig(u, currentConfig) == u.snap
configToUpdate(u, currentConfig) == currentConfig

\* const newUserConfig = JSON.parse( JSON.stringify( currentConfig ) )
noClone(h, currentConfig, g) == [heap |-> h, value |-> currentConfig]
shallowClone(h, currentConfig, g) ==
    IF isObject(currentConfig)
    THEN [heap |-> (<<g, <<>>>> :> h[currentConfig.r]) @@ h,
          value |-> Ref(<<g, <<>>>>)]
    ELSE [heap |-> h, value |-> currentConfig]
deepClone(h, currentConfig, g) ==
    IF isObject(currentConfig)
    THEN [heap |-> JSONCloneHeap(h, currentConfig, g) @@ h,
          value |-> JSONCloneValue(currentConfig, g)]
    ELSE [heap |-> h, value |-> currentConfig]

\* What setStyle stores.
encodedValue(h, u) ==
    getPresetVariableFromValue(h, get(h, u.merged, <<"settings">>),
                               u.blockName, u.stylePath, u.value)
styleValueToStore(h, u) ==
    IF u.encode
    THEN getPresetVariableFromValue(h, get(h, u.merged, <<"settings">>),
                                    u.blockName, u.stylePath, u.value)
    ELSE u.value

valueToStore(h, u) ==
    IF u.kind = "setStyle" THEN styleValueToStore(h, u) ELSE u.value

\* The setSetting and setStyle updaters: [heap, value, thrown]; value is the
\* configuration returned, or the one kept when the updater throws.
writeUpdater(h, u, currentConfig, g) ==
    IF JSONThrows(currentConfig)
    THEN [heap |-> h, value |-> currentConfig, thrown |-> "SyntaxError"]
    ELSE IF u.kind = "setStyle" /\ u.encode /\ Nullish(u.merged)
    THEN [heap |-> h, value |-> currentConfig, thrown |-> "TypeError"]
    ELSE LET c == deepClone(h, currentConfig, g)
         IN  [heap |-> set(c.heap, c.value, u.path, valueToStore(h, u), g),
              value |-> c.value,
              thrown |-> "none"]

runUpdater(h, u, currentConfig, g) ==
    IF u.kind = "reset"
    THEN [heap |-> h, value |-> resetUpdater(currentConfig), thrown |-> "none"]
    ELSE writeUpdater(h, u, configToUpdate(u, currentConfig), g)

----------------------------------------------------------------------------
(* Literal configurations and their objects in the heap *)

Tree(f) == [t |-> "tree", f |-> f]
isTree(v) == v.t = "tree"

RECURSIVE TreePaths(_, _)
TreePaths(tr, p) ==
    {<<p, tr>>} \cup
    UNION { TreePaths(tr.f[k], p \o <<k>>) :
            k \in {kk \in DOMAIN tr.f : isTree(tr.f[kk])} }

\* The objects of literal `tr`, named <<tag, path>>.
Load(tr, tag) ==
    LET ps == TreePaths(tr, <<>>)
        sub(p) == (CHOOSE e \in ps : e[1] = p)[2]
    IN  [n \in {<<tag, e[1]>> : e \in ps} |->
            [k \in DOMAIN sub(n[2]).f |->
                IF isTree(sub(n[2]).f[k])
                THEN Ref(<<tag, n[2] \o <<k>>>>)
                ELSE sub(n[2]).f[k]]]

\* key -> v, or no key at all when v is Absent
Absent == [t |-> "absent"]
Opt(key, v) == IF v = Absent THEN <<>> ELSE key :> v

BaseTag == EmptyTag + 1
UserTag == BaseTag + 1
MergedTag == UserTag + 1
FirstGen == MergedTag + 1

\* A hook call: its name and arguments.
Call(name, path, blockName, source, decode, parent, supported, supports) ==
    [name |-> name, path |-> path, blockName |-> blockName, source |-> source,
     decode |-> decode, parentSettings |-> parent,
     supportedStyles |-> supported, supports |-> supports]

NoOp == Call("none", <<>>, Undef, "all", TRUE, Undef, {}, Undef)

----------------------------------------------------------------------------
(* Writes: renders, setter calls, and setUserConfig running the updaters *)

MaxRuns == 2
MaxQueue == 2

BlockNames == {Undef, Str("B")}

InitialUserTrees ==
    { Tree(<<>>),
      Tree(("settings" :> Tree("color" :> Tree("text" :> Bool(TRUE)))) @@
           ("styles" :> Tree(("css" :> Str("a")) @@
                             ("color" :> Tree("text" :> PresetToken)) @@
                             ("blocks" :>
                                Tree("B" :> Tree("css" :> Str("#f00"))))))) }

WriteMergedTree ==
    Tree(("settings" :>
            Tree("color" :> Tree("palette" :> Tree("red" :> Str("#f00"))))) @@
         ("styles" :> Tree(<<>>)))

Init ==
    /\ \E ut \in InitialUserTrees \cup {Absent} :
        /\ heap = EmptyConfigHeap @@ Load(WriteMergedTree, MergedTag) @@
                  (IF ut = Absent THEN <<>> ELSE Load(ut, UserTag))
        /\ user = IF ut = Absent THEN Undef ELSE Ref(<<UserTag, <<>>>>)
    /\ base = Undef
    /\ merged = Ref(<<MergedTag, <<>>>>)
    /\ snapshot = user
    /\ queue = <<>>
    /\ applied = <<>>
    /\ prev = Undef
    /\ gen = FirstGen
    /\ op = NoOp
    /\ result = Undef
    /\ thrown = "none"

\* A render: the hooks read the context again and make new closures.
Render ==
    /\ snapshot # user
    /\ snapshot' = user
    /\ UNCHANGED <<heap, base, user, merged, queue, applied, prev, gen, op,
                   result, thrown>>

CanQueue == Len(queue) < MaxQueue /\ Len(applied) + Len(queue) < MaxRuns

Enqueue(u) ==
    /\ CanQueue
    /\ queue' = Append(queue, u)
    /\ UNCHANGED <<heap, base, user, merged, snapshot, applied, prev, gen, op,
                   result, thrown>>

\* useGlobalStylesReset()[ 1 ]()
CallReset ==
    Enqueue(Updater("reset", <<>>, Undef, FALSE, Undef, <<>>, merged, snapshot,
                    FALSE))

SettingPaths == {<<"color", "text">>}
SettingValues == {Bool(FALSE)}

\* useGlobalSetting( propertyPath, blockName )[ 1 ]( newValue )
CallSetSetting ==
    \E propertyPath \in SettingPaths, blockName \in BlockNames,
       newValue \in SettingValues :
        Enqueue(Updater("setSetting", contextualPath(propertyPath, blockName),
                        newValue, FALSE, blockName, propertyPath, merged,
                        snapshot, FALSE))

StylePaths == {<<>>, <<"css">>}
StyleValues == {Str("#f00")}

\* How setStyle gets its argument: a value of StyleValues, or (fromRead) the
\* value the same hook call returned with shouldDecodeEncode false.
StyleCalls ==
    {[decode |-> d, fromRead |-> FALSE] : d \in BOOLEAN} \cup
    {[decode |-> FALSE, fromRead |-> TRUE]}

\* const [ value, setStyle ] = useGlobalStyle( path, blockName, 'user',
\*     { shouldDecodeEncode } ); setStyle( newValue ), or setStyle( value )
CallSetStyle ==
    \E path \in StylePaths, blockName \in BlockNames, c \in StyleCalls :
        LET value == styleResult(heap, base, snapshot, merged, path, blockName,
                                 "user", c.decode).value
        IN  \E newValue \in IF c.fromRead THEN {value} ELSE StyleValues :
                Enqueue(Updater("setStyle", finalPath(path, blockName), newValue,
                                c.decode, blockName, path, merged, snapshot,
                                c.fromRead))

\* setUserConfig runs the oldest updater on the current user configuration
\* and installs what it returns.
RunUpdater ==
    /\ queue # <<>>
    /\ LET u == Head(queue)
           r == runUpdater(heap, u, user, gen)
       IN  /\ heap' = r.heap
           /\ user' = r.value
           /\ thrown' = r.thrown
           /\ applied' = Append(applied, u)
           /\ prev' = user
    /\ queue' = Tail(queue)
    /\ gen' = gen + 1
    /\ UNCHANGED <<base, merged, snapshot, op, result>>

Next == Render \/ CallReset \/ CallSetSetting \/ CallSetStyle \/ RunUpdater

Spec == Init /\ [][Next]_vars

----------------------------------------------------------------------------
(* Properties of the writes *)

Last(q) == q[Len(q)]
IsPrefix(p, q) == Len(p) <= Len(q) /\ SubSeq(q, 1, Len(p)) = p
Independent(p, q) == ~IsPrefix(p, q) /\ ~IsPrefix(q, p)
IsWrite(u) == u.kind \in {"setSetting", "setStyle"}

\* v is an object { settings: {}, styles: {} }, whichever object it is.
IsEmptyConfiguration(h, v) ==
    /\ isObject(v)
    /\ DOMAIN h[v.r] = {"settings", "styles"}
    /\ \A k \in {"settings", "styles"} :
        isObject(h[v.r][k]) /\ DOMAIN h[h[v.r][k].r] = {}

\* a and b are the same JSON text: equal, key by key, leaving out the keys
\* that hold undefined.
RECURSIVE SameJSON(_, _, _)
SameJSON(h, a, b) ==
    IF isObject(a) /\ isObject(b)
    THEN LET ka == {k \in DOMAIN h[a.r] : JSONKeeps(h[a.r][k])}
             kb == {k \in DOMAIN h[b.r] : JSONKeeps(h[b.r][k])}
         IN  ka = kb /\ \A k \in ka : SameJSON(h, h[a.r][k], h[b.r][k])
    ELSE a = b

\* C5: once a reset has run, the user configuration is
\* { settings: {}, styles: {} } and canReset is false; and canReset is true
\* exactly when the user configuration exists and is not that empty
\* configuration.
C5_ResetEmptiesUserConfig ==
    /\ (applied # <<>> /\ Last(applied).kind = "reset") =>
            IsEmptyConfiguration(heap, user) /\ ~canReset(heap, user)
    /\ canReset(heap, user) <=>
            (~Nullish(user) /\ ~IsEmptyConfiguration(heap, user))

\* A reset has run on a configuration that a write had filled.
C5_Witness ==
    /\ Len(applied) >= 2
    /\ Last(applied).kind = "reset"
    /\ IsWrite(applied[Len(applied) - 1])
    /\ isObject(prev) /\ ~IsEmptyConfiguration(heap, prev)
    /\ ~canReset(heap, user)

\* C6: an updater run changes no object that existed before it (the
\* configuration it was handed and EMPTY_CONFIG among them), and what a write
\* installs is an object that did not exist before.
C6_WritesNeverMutate ==
    [][applied' # applied =>
        /\ \A r \in DOMAIN heap : r \in DOMAIN heap' /\ heap'[r] = heap[r]
        /\ (IsWrite(Last(applied')) /\ thrown' = "none") =>
                (isObject(user') /\ user'.r \notin DOMAIN heap)]_vars

\* A write has run on the shared EMPTY_CONFIG that a reset installed.
C6_Witness ==
    /\ applied # <<>>
    /\ IsWrite(Last(applied))
    /\ thrown = "none"
    /\ prev = EMPTY_CONFIG
    /\ user # prev
    /\ ~IsEmptyConfiguration(heap, user)
    /\ IsEmptyConfiguration(heap, EMPTY_CONFIG)

\* C7: setStyle called with what getStyle( P, B, 'user', decode false ) read
\* from the configuration the updater then runs on leaves the value at P as
\* it was, P absent included.
C7_RoundTripKeepsPath ==
    (/\ applied # <<>>
     /\ Last(applied).kind = "setStyle"
     /\ Last(applied).fromRead
     /\ ~Last(applied).encode
     /\ Last(applied).snap = prev) =>
        get(heap, user, Last(applied).path) = get(heap, prev, Last(applied).path)

\* The round trip has run on a configuration that holds a value at P.
C7_Witness ==
    /\ applied # <<>>
    /\ Last(applied).kind = "setStyle"
    /\ Last(applied).fromRead
    /\ ~Last(applied).encode
    /\ Last(applied).snap = prev
    /\ thrown = "none"
    /\ user # prev
    /\ Last(applied).value.t = "string"
    /\ get(heap, user, Last(applied).path) = Last(applied).value

\* The last two updaters run were writes, to paths p1 then p2, and both
\* values are in the user configuration.
BothWritesPresent(a1, a2) ==
    /\ get(heap, user, a2.path) = valueToStore(heap, a2)
    /\ SameJSON(heap, get(heap, user, a1.path), valueToStore(heap, a1))

\* Every key of the user configuration is on the path written by a2, under
\* it, or one of the two sections of the empty configuration.
OnlyWritten(a2) ==
    /\ isObject(user)
    /\ \A e \in ObjPaths(heap, user.r, <<>>) :
        \A k \in DOMAIN heap[e[2]] :
            \/ IsPrefix(e[1] \o <<k>>, a2.path)
            \/ IsPrefix(a2.path, e[1] \o <<k>>)
            \/ (e[1] = <<>> /\ k \in {"settings", "styles"} /\
                DOMAIN heap[heap[e[2]][k].r] = {})

\* C10 as stated: any two consecutive writes to different paths are both in
\* the final configuration, and a write after a reset works on the empty
\* configuration.
C10_AsStated ==
    (Len(applied) >= 2 /\ thrown = "none") =>
        LET a1 == applied[Len(applied) - 1]
            a2 == Last(applied)
        IN  /\ (IsWrite(a1) /\ IsWrite(a2) /\ a1.path # a2.path) =>
                    BothWritesPresent(a1, a2)
            /\ (a1.kind = "reset" /\ IsWrite(a2)) => OnlyWritten(a2)

\* C10, amended: each write works on the configuration the updater before it
\* produced, whatever its render captured: two consecutive writes to paths
\* neither of which is a prefix of the other are both in the final
\* configuration, and a write after a reset works on the empty configuration.
C10_WritesChain ==
    (Len(applied) >= 2 /\ thrown = "none") =>
        LET a1 == applied[Len(applied) - 1]
            a2 == Last(applied)
        IN  /\ (IsWrite(a1) /\ IsWrite(a2) /\ Independent(a1.path, a2.path)) =>
                    BothWritesPresent(a1, a2)
            /\ (a1.kind = "reset" /\ IsWrite(a2)) => OnlyWritten(a2)

\* Two setters of one render wrote to independent paths; the second ran on
\* a configuration newer than the one its render captured.
C10_Witness ==
    /\ Len(applied) >= 2
    /\ thrown = "none"
    /\ IsWrite(applied[Len(applied) - 1])
    /\ IsWrite(Last(applied))
    /\ Independent(applied[Len(applied) - 1].path, Last(applied).path)
    /\ applied[Len(applied) - 1].snap = Last(applied).snap
    /\ Last(applied).snap # prev
    /\ ~Nullish(get(heap, user, applied[Len(applied) - 1].path))
    /\ ~Nullish(get(heap, user, Last(applied).path))

----------------------------------------------------------------------------
(* Reads: useGlobalSetting and useGlobalStyle called on views the context  *)
(* provides                                                                *)

\* The values a settings key may hold in a view, Absent for no key.
SlotValues ==
    {Absent, Null, Bool(FALSE), Num(0), Str(""), Bool(TRUE), Str("x")}

\* The merged view: settings.color.text is g, settings.blocks.B.color.text
\* is b; around them keys of the allow-list that hold truthy and falsy
\* values, globally and for block B, and keys the allow-list does not name.
MergedTree(g, b) ==
    Tree(("settings" :>
            Tree(("color" :>
                    Tree(Opt("text", g) @@
                         ("link" :> Str("")) @@
                         ("palette" :> Tree("red" :> Str("#f00"))))) @@
                 ("custom" :> Num(0)) @@
                 ("typography" :>
                    Tree(("fluid" :> Bool(TRUE)) @@ ("dropCap" :> Bool(TRUE)))) @@
                 ("notASetting" :> Bool(TRUE)) @@
                 ("blocks" :>
                    Tree("B" :>
                        Tree(("color" :>
                                Tree(Opt("text", b) @@ ("link" :> Bool(TRUE)))) @@
                             ("typography" :>
                                Tree("dropCap" :> Bool(FALSE)))))))) @@
         ("styles" :>
            Tree(("css" :> Str("m")) @@
                 ("color" :> Tree("text" :> PresetToken)))))

\* The user view: styles.css is c; a setting that differs from merged.
UserCssValues == {Absent, Str(""), Str("x"), PresetToken}
UserTree(c) ==
    Tree(("settings" :> Tree("color" :> Tree("text" :> Str("u")))) @@
         ("styles" :> Tree(Opt("css", c))))

BaseTree ==
    Tree(("settings" :>
            Tree(("color" :> Tree("palette" :> Tree("red" :> Str("#b00")))) @@
                 ("blocks" :>
                    Tree("B" :> Tree("color" :> Tree("text" :> Null)))))) @@
         ("styles" :>
            Tree(("css" :> Str("b")) @@
                 ("blocks" :>
                    Tree("B" :> Tree("color" :>
                                        Tree("text" :> PresetToken)))))))

InitRead ==
    /\ \E g \in SlotValues, b \in SlotValues, c \in UserCssValues \cup {Undef} :
        /\ heap = EmptyConfigHeap @@ Load(BaseTree, BaseTag) @@
                  Load(MergedTree(g, b), MergedTag) @@
                  (IF c = Undef THEN <<>> ELSE Load(UserTree(c), UserTag))
        /\ user = IF c = Undef THEN Undef ELSE Ref(<<UserTag, <<>>>>)
    /\ base = Ref(<<BaseTag, <<>>>>)
    /\ merged = Ref(<<MergedTag, <<>>>>)
    /\ snapshot = user
    /\ queue = <<>>
    /\ applied = <<>>
    /\ prev = Undef
    /\ gen = FirstGen
    /\ op = NoOp
    /\ result = Undef
    /\ thrown = "none"

\* A behaviour is one hook call on the views of its initial state.
NotCalled == op = NoOp

Sources == {"all", "user", "base", "merged", "setUserConfig", "constructor"}
ReadSettingPaths == {<<>>, <<"color", "text">>, <<"typography", "dropCap">>}
ReadStylePaths == {<<"css">>, <<"color", "text">>}

\* useGlobalSetting( propertyPath, blockName, source )[ 0 ]
GetSetting ==
    \E propertyPath \in ReadSettingPaths, blockName \in BlockNames,
       source \in Sources :
        LET r == settingValue(heap, base, user, merged, propertyPath,
                              blockName, source, gen)
        IN  /\ NotCalled
            /\ heap' = r.heap
            /\ result' = r.value
            /\ thrown' = r.thrown
            /\ op' = Call("useGlobalSetting", propertyPath, blockName, source,
                          TRUE, Undef, {}, Undef)
            /\ UNCHANGED <<base, user, merged, snapshot, queue, applied, prev,
                           gen>>

\* useGlobalStyle( path, blockName, source, { shouldDecodeEncode } )[ 0 ]
GetStyle ==
    \E path \in ReadStylePaths, blockName \in BlockNames, source \in Sources,
       shouldDecodeEncode \in BOOLEAN :
        LET r == styleResult(heap, base, user, merged, path, blockName,
                             source, shouldDecodeEncode)
        IN  /\ NotCalled
            /\ result' = r.value
            /\ thrown' = r.thrown
            /\ op' = Call("useGlobalStyle", path, blockName, source,
                          shouldDecodeEncode, Undef, {}, Undef)
            /\ UNCHANGED <<heap, base, user, merged, snapshot, queue, applied,
                           prev, gen>>

NextRead == GetSetting \/ GetStyle

SpecRead == InitRead /\ [][NextRead]_vars

----------------------------------------------------------------------------
(* Properties of the reads *)

ValidSources == {"all", "user", "base"}
ViewOf(source) ==
    CASE source = "all" -> merged
      [] source = "user" -> user
      [] source = "base" -> base

AllowList == {VALID_SETTINGS[i] : i \in 1..Len(VALID_SETTINGS)}

IsSettingRead ==
    /\ op.name = "useGlobalSetting"
    /\ op.source \in ValidSources
    /\ thrown = "none"

BlockValue(P) ==
    get(heap, ViewOf(op.source), <<"settings", "blocks", "B">> \o P)
GlobalValue(P) == get(heap, ViewOf(op.source), <<"settings">> \o P)

\* C1: a source other than 'all', 'user', 'base' throws 'Unsupported
\* source' in useGlobalSetting (single path and bulk) and in useGlobalStyle,
\* and the three sources do not throw when the context holds the three views.
C1_AsStated ==
    op.name \in {"useGlobalSetting", "useGlobalStyle"} =>
        /\ op.source \notin ValidSources => thrown = "Unsupported source"
        /\ (op.source \in ValidSources /\ ~Nullish(base) /\ ~Nullish(user) /\
            ~Nullish(merged)) => thrown = "none"

\* C2 as stated: with block B the result is the block-scoped value whenever
\* the view holds one (false, 0, '' and every other present value), else
\* the global value, else undefined; without a block it is the global value.
C2_AsStated ==
    (IsSettingRead /\ op.path \in AllowList) =>
        result = IF op.blockName = Str("B") /\ BlockValue(op.path) # Undef
                 THEN BlockValue(op.path)
                 ELSE GlobalValue(op.path)

\* C2, amended: with block B the result is the block-scoped value whenever
\* the view holds one that is not null (false, 0 and '' included), else the
\* global value, else undefined; without a block it is the global value.
C2_BlockValueElseGlobal ==
    (IsSettingRead /\ op.path \in AllowList) =>
        result = IF op.blockName = Str("B") /\ ~Nullish(BlockValue(op.path))
                 THEN BlockValue(op.path)
                 ELSE GlobalValue(op.path)

\* A block-scoped falsy value was returned although the global one is truthy.
C2_Witness ==
    /\ IsSettingRead
    /\ op.path = <<"color", "text">>
    /\ op.blockName = Str("B")
    /\ BlockValue(op.path) \in {Bool(FALSE), Num(0), Str("")}
    /\ Truthy(GlobalValue(op.path))
    /\ result = BlockValue(op.path)

\* The value path P resolves to: block-scoped, global when that is null or
\* undefined.
Resolved(P) ==
    IF op.blockName = Str("B") /\ ~Nullish(BlockValue(P))
    THEN BlockValue(P)
    ELSE GlobalValue(P)

\* The key paths of the objects the bulk call made (the result and the
\* sections under it).
ResultKeyPaths ==
    UNION { {e[1] \o <<k>> : k \in DOMAIN heap[e[2]]} :
            e \in {x \in ObjPaths(heap, result.r, <<>>) : x[2][1] = gen} }

\* C3: the bulk result holds, at each allow-list path whose resolved value
\* is truthy, that value; it holds nothing at the other allow-list paths and
\* has no key outside the populated allow-list paths.
C3_BulkIsTruthyAllowList ==
    (IsSettingRead /\ op.path = <<>>) =>
        /\ isObject(result)
        /\ \A P \in AllowList :
            get(heap, result, P) =
                IF Truthy(Resolved(P)) THEN Resolved(P) ELSE Undef
        /\ \A kp \in ResultKeyPaths :
            \E P \in AllowList : Truthy(Resolved(P)) /\ IsPrefix(kp, P)

\* A bulk read for block B kept a path whose block value is truthy and left
\* out one whose block value is false over a truthy global value, with a
\* truthy setting outside the allow-list in the view.
C3_Witness ==
    /\ IsSettingRead
    /\ op.path = <<>>
    /\ op.blockName = Str("B")
    /\ op.source = "all"
    /\ get(heap, result, <<"color", "link">>) = Bool(TRUE)
    /\ get(heap, result, <<"typography", "dropCap">>) = Undef
    /\ Truthy(GlobalValue(<<"typography", "dropCap">>))
    /\ Truthy(GlobalValue(<<"typography", "fluid">>))
    /\ get(heap, result, <<"typography", "fluid">>) = Undef
    /\ Truthy(get(heap, result, <<"color", "text">>))

IsCssRead ==
    /\ op.name = "useGlobalStyle"
    /\ op.path = <<"css">>
    /\ op.blockName = Undef
    /\ op.source = "all"

UserCss == get(heap, user, <<"styles", "css">>)

\* C4 as stated: getStyle( 'css', undefined, 'all' ) (decoding by default)
\* returns exactly the user view's styles.css.
C4_AsStated == (IsCssRead /\ op.decode) => result = UserCss

\* C4, amended: getStyle( 'css', undefined, 'all' ) reads styles.css from
\* the user view and never from base or merged; it returns that value as it
\* is (undefined and '' included) unless it is a preset reference that the
\* decoding, when on, replaces by the preset's value from the merged settings.
C4_CssFromUserView ==
    IsCssRead =>
        /\ (~op.decode \/ UserCss # PresetToken) => result = UserCss
        /\ (op.decode /\ UserCss = PresetToken) =>
                result \in {UserCss, get(heap, merged, PresetPath)}

\* The user's css is the empty string, merged and base hold other values,
\* and the empty string is what the decoding read returned.
C4_Witness ==
    /\ IsCssRead
    /\ op.decode
    /\ UserCss = Str("")
    /\ Truthy(get(heap, merged, <<"styles", "css">>))
    /\ Truthy(get(heap, base, <<"styles", "css">>))
    /\ result = Str("")

----------------------------------------------------------------------------
(* useSettingsForBlockElement: the useMemo callback *)

\* { ...x }: the own keys of x, none when x is undefined or a boolean.
spread(h, x) == IF isObject(x) THEN h[x.r] ELSE EmptyObj

\* const updatedSettings = { ...parentSettings }: a new object `id`.
aliasParent(h, parentSettings, id) ==
    [heap |-> IF isObject(parentSettings) THEN h ELSE h @@ (id :> EmptyObj),
     value |-> IF isObject(parentSettings) THEN parentSettings ELSE Ref(id)]
copyParent(h, parentSettings, id) ==
    [heap |-> h @@ (id :> spread(h, parentSettings)), value |-> Ref(id)]

\* updatedSettings[ section ] = { ...updatedSettings[ section ], ...fields }:
\* the new section object is `id`.
assignSection(h, updatedSettings, section, fields, id) ==
    [(h @@ (id :> (fields @@ spread(h, Own(h, updatedSettings, section)))))
        EXCEPT ![updatedSettings.r] = Put(@, section, Ref(id))]

\* if ( ! supportedStyles.includes( 'fontSize' ) ) { ... }
filterFontSize(h, us, supportedStyles, g) ==
    IF "fontSize" \notin supportedStyles
    THEN assignSection(h @@ (<<g, <<"typography", "fontSizes">>>> :> EmptyObj),
                       us, "typography",
                       ("fontSizes" :> Ref(<<g, <<"typography", "fontSizes">>>>)) @@
                       ("customFontSize" :> Bool(FALSE)),
                       <<g, <<"typography", "fontSize">>>>)
    ELSE h

\* if ( ! supportedStyles.includes( 'fontFamily' ) ) { ... }
filterFontFamily(h, us, supportedStyles, g) ==
    IF "fontFamily" \notin supportedStyles
    THEN assignSection(h @@ (<<g, <<"typography", "fontFamilies">>>> :> EmptyObj),
                       us, "typography",
                       "fontFamilies" :> Ref(<<g, <<"typography", "fontFamilies">>>>),
                       <<g, <<"typography", "fontFamily">>>>)
    ELSE h

TypographyKeys ==
    <<"lineHeight", "fontStyle", "fontWeight", "letterSpacing", "textTransform",
      "textDecoration">>
LayoutKeys == <<"contentSize", "wideSize">>
SpacingKeys == <<"padding", "margin", "blockGap">>

\* keys.forEach( ( key ) => { if ( ! supportedStyles.includes( key ) ) {
\*     updatedSettings[ section ] = { ...updatedSettings[ section ],
\*                                    [ key ]: false }; } } )
RECURSIVE disableEach(_, _, _, _, _, _, _)
disableEach(h, us, section, keys, i, supportedStyles, g) ==
    IF i > Len(keys) THEN h
    ELSE LET h2 == IF keys[i] \notin supportedStyles
                   THEN assignSection(h, us, section, keys[i] :> Bool(FALSE),
                                      <<g, <<section, keys[i]>>>>)
                   ELSE h
         IN  IF us.r \in DOMAIN h2
             THEN disableEach(h2, us, section, keys, i + 1, supportedStyles, g)
             ELSE h2

\* Array.isArray( supports?.spacing?.[ key ] )
\*     ? supports?.spacing?.[ key ] : supports?.spacing?.[ key ]?.sides
sidesOf(h, supports, key) ==
    LET declared == get(h, supports, <<"spacing", key>>)
    IN  IF declared.t = "array" THEN declared ELSE Own(h, declared, "sides")

\* sides?.length
hasLength(sides) == sides.t \in {"array", "string"} /\ Len(sides.v) > 0

\* The body of the spacing loop for one key.
spacingDisable(h, us, key, supportedStyles, g) ==
    IF key \notin supportedStyles
    THEN assignSection(h, us, "spacing", key :> Bool(FALSE),
                       <<g, <<"spacing", key>>>>)
    ELSE h

spacingSides(h, us, key, supports, g) ==
    LET sides == sidesOf(h, supports, key)
        inner == <<g, <<"spacing", key, "sides", "value">>>>
    IN  IF hasLength(sides)
        THEN assignSection(
                h @@ (inner :>
                        (("sides" :> sides) @@
                         spread(h, get(h, us, <<"spacing", key>>)))),
                us, "spacing", key :> Ref(inner),
                <<g, <<"spacing", key, "sides">>>>)
        ELSE h

RECURSIVE spacingEach(_, _, _, _, _, _)
spacingEach(h, us, i, supportedStyles, supports, g) ==
    IF i > Len(SpacingKeys) THEN h
    ELSE LET h2 == spacingSides(
                        spacingDisable(h, us, SpacingKeys[i], supportedStyles, g),
                        us, SpacingKeys[i], supports, g)
         IN  IF us.r \in DOMAIN h2
             THEN spacingEach(h2, us, i + 1, supportedStyles, supports, g)
             ELSE h2

\* if ( ! supportedStyles.includes( 'minHeight' ) ) { ... }
filterMinHeight(h, us, supportedStyles, g) ==
    IF "minHeight" \notin supportedStyles
    THEN assignSection(h, us, "dimensions", "minHeight" :> Bool(FALSE),
                       <<g, <<"dimensions", "minHeight">>>>)
    ELSE h

\* The whole callback: [heap, value].
settingsForBlockElement(h, parentSettings, supportedStyles, supports, g) ==
    LET c == copyParent(h, parentSettings, <<g, <<>>>>)
        us == c.value
        h1 == filterFontSize(c.heap, us, supportedStyles, g)
        h2 == filterFontFamily(h1, us, supportedStyles, g)
        h3 == disableEach(h2, us, "typography", TypographyKeys, 1,
                          supportedStyles, g)
        h4 == disableEach(h3, us, "layout", LayoutKeys, 1, supportedStyles, g)
        h5 == spacingEach(h4, us, 1, supportedStyles, supports, g)
        h6 == filterMinHeight(h5, us, supportedStyles, g)
    IN  [heap |-> h6, value |-> us]

----------------------------------------------------------------------------
(* The capability filter called on settings and block declarations *)

ParentTrees == <<
    Tree(<<>>),
    Tree(("typography" :>
            Tree(("fontSizes" :> Tree("theme" :> Str("small"))) @@
                 ("customFontSize" :> Bool(TRUE)) @@
                 ("lineHeight" :> Bool(TRUE)) @@
                 ("dropCap" :> Bool(TRUE)))) @@
         ("layout" :> Tree("contentSize" :> Str("800px"))) @@
         ("spacing" :>
            Tree(("padding" :> Bool(TRUE)) @@
                 ("margin" :> Tree(("sides" :> Arr(<<"top">>)) @@
                                   ("units" :> Str("px")))) @@
                 ("units" :> Str("px")))) @@
         ("dimensions" :> Tree("minHeight" :> Bool(TRUE))) @@
         ("color" :> Tree("text" :> Bool(TRUE))))
>>

\* supports of the block type: spacing left out, a boolean, or per feature a
\* boolean, a list of sides, or an object with a list of sides.
SupportsTrees == <<
    Tree(<<>>),
    Tree("spacing" :> Bool(TRUE)),
    Tree("spacing" :>
            Tree(("padding" :> Bool(TRUE)) @@
                 ("margin" :> Arr(<<"top", "bottom">>)) @@
                 ("blockGap" :> Tree("sides" :> Arr(<<"horizontal">>))))),
    Tree("spacing" :>
            Tree(("padding" :> Arr(<<"left">>)) @@
                 ("margin" :> Tree("sides" :> Arr(<<>>))) @@
                 ("blockGap" :> Arr(<<>>))))
>>

ParentTag == EmptyTag + 1
SupportsTag == ParentTag + Len(ParentTrees)

FilterHeap ==
    Load(ParentTrees[1], ParentTag) @@ Load(ParentTrees[2], ParentTag + 1) @@
    Load(SupportsTrees[1], SupportsTag) @@ Load(SupportsTrees[2], SupportsTag + 1) @@
    Load(SupportsTrees[3], SupportsTag + 2) @@ Load(SupportsTrees[4], SupportsTag + 3)

FilterGen == SupportsTag + Len(SupportsTrees)

ParentChoices ==
    {Undef} \cup {Ref(<<ParentTag + i - 1, <<>>>>) : i \in 1..Len(ParentTrees)}
SupportsChoices ==
    {Undef} \cup {Ref(<<SupportsTag + i - 1, <<>>>>) : i \in 1..Len(SupportsTrees)}

Range(q) == {q[i] : i \in 1..Len(q)}
OtherFeatures ==
    {"fontSize", "fontFamily", "minHeight"} \cup Range(TypographyKeys) \cup
    Range(LayoutKeys)
\* What getSupportedStyles may answer: any of the spacing features, with
\* none, all, one or all but one of the other features.
SupportedStylesChoices ==
    {sp \cup ot :
        sp \in SUBSET Range(SpacingKeys),
        ot \in {{}, OtherFeatures} \cup {{f} : f \in OtherFeatures} \cup
               {OtherFeatures \ {f} : f \in OtherFeatures}}

InitFilter ==
    /\ heap = FilterHeap
    /\ base = Undef
    /\ user = Undef
    /\ merged = Undef
    /\ snapshot = Undef
    /\ queue = <<>>
    /\ applied = <<>>
    /\ prev = Undef
    /\ gen = FilterGen
    /\ op = NoOp
    /\ result = Undef
    /\ thrown = "none"

\* useSettingsForBlockElement( parentSettings, blockName, element ), the
\* block registry answering supportedStyles and supports.
Filter ==
    \E parentSettings \in ParentChoices,
       supportedStyles \in SupportedStylesChoices,
       supports \in SupportsChoices :
        LET r == settingsForBlockElement(heap, parentSettings, supportedStyles,
                                         supports, gen)
        IN  /\ NotCalled
            /\ heap' = r.heap
            /\ result' = r.value
            /\ op' = Call("useSettingsForBlockElement", <<>>, Undef, "all", TRUE,
                          parentSettings, supportedStyles, supports)
            /\ UNCHANGED <<base, user, merged, snapshot, queue, applied, prev,
                           gen, thrown>>

NextFilter == Filter

SpecFilter == InitFilter /\ [][NextFilter]_vars

----------------------------------------------------------------------------
(* Properties of the capability filter *)

IsFilterCall == op.name = "useSettingsForBlockElement"

\* C8: the call leaves parentSettings and every object under it (and the
\* block's supports) as they were, returns another object, and each section
\* of the result that differs from the parent's is an object the call made.
C8_FilterLeavesParent ==
    IsFilterCall =>
        /\ \A r \in DOMAIN FilterHeap : heap[r] = FilterHeap[r]
        /\ isObject(result)
        /\ result # op.parentSettings
        /\ result.r \notin DOMAIN FilterHeap
        /\ \A k \in DOMAIN heap[result.r] :
            heap[result.r][k] # Own(FilterHeap, op.parentSettings, k) =>
                /\ isObject(heap[result.r][k])
                /\ heap[result.r][k].r \notin DOMAIN FilterHeap

\* The filter changed the typography, layout, spacing and dimensions of a
\* parent that has all four sections, and kept its color section.
C8_Witness ==
    /\ IsFilterCall
    /\ isObject(op.parentSettings)
    /\ \A k \in {"typography", "layout", "spacing", "dimensions"} :
        /\ isObject(Own(FilterHeap, op.parentSettings, k))
        /\ Own(heap, result, k) # Own(FilterHeap, op.parentSettings, k)
    /\ Own(heap, result, "color") = Own(FilterHeap, op.parentSettings, "color")
    /\ get(heap, result, <<"spacing", "margin", "sides">>) =
            Arr(<<"top", "bottom">>)
    /\ get(heap, op.parentSettings, <<"spacing", "margin", "sides">>) =
            Arr(<<"top">>)

\* C9: in the result every spacing feature that supportedStyles lacks is
\* false, the declared sides are copied only for the spacing features that
\* are supported, and every typography, layout and minHeight feature that
\* supportedStyles lacks is false or emptied.
C9_AsStated ==
    IsFilterCall =>
        /\ \A key \in Range(SpacingKeys) :
            key \notin op.supportedStyles =>
                get(heap, result, <<"spacing", key>>) = Bool(FALSE)
        /\ \A key \in Range(SpacingKeys) :
            (/\ hasLength(sidesOf(FilterHeap, op.supports, key))
             /\ get(heap, result, <<"spacing", key, "sides">>) =
                    sidesOf(FilterHeap, op.supports, key)) =>
                key \in op.supportedStyles
        /\ "fontSize" \notin op.supportedStyles =>
            /\ get(heap, result, <<"typography", "customFontSize">>) = Bool(FALSE)
            /\ isObject(get(heap, result, <<"typography", "fontSizes">>))
            /\ spread(heap, get(heap, result, <<"typography", "fontSizes">>)) =
                    EmptyObj
        /\ "fontFamily" \notin op.supportedStyles =>
            /\ isObject(get(heap, result, <<"typography", "fontFamilies">>))
            /\ spread(heap, get(heap, result, <<"typography", "fontFamilies">>)) =
                    EmptyObj
        /\ \A key \in Range(TypographyKeys) :
            key \notin op.supportedStyles =>
                get(heap, result, <<"typography", key>>) = Bool(FALSE)
        /\ \A key \in Range(LayoutKeys) :
            key \notin op.supportedStyles =>
                get(heap, result, <<"layout", key>>) = Bool(FALSE)
        /\ "minHeight" \notin op.supportedStyles =>
            get(heap, result, <<"dimensions", "minHeight">>) = Bool(FALSE)

\* What does hold of the spacing features: one that supportedStyles lacks is
\* false unless the block declares sides for it, and then it is an object
\* that holds just those sides.
SpacingAsCoded ==
    IsFilterCall =>
        \A key \in Range(SpacingKeys) :
            key \notin op.supportedStyles =>
                IF hasLength(sidesOf(FilterHeap, op.supports, key))
                THEN spread(heap, get(heap, result, <<"spacing", key>>)) =
                        ("sides" :> sidesOf(FilterHeap, op.supports, key))
                ELSE get(heap, result, <<"spacing", key>>) = Bool(FALSE)

====
